---------------------------- MODULE Spec2Model ----------------------------
(***************************************************************************)
(* The daily procurement pipeline: the seven tasks of the Airflow DAG      *)
(* (airflow/dags/procurement_pipeline_dag.py), which run SQL through the   *)
(* Presto CLI over the master data in PostgreSQL and the day's orders and  *)
(* stock tables in Hive, and the scripts that fill the master data         *)
(* (scripts/data_generation).                                              *)
(*                                                                         *)
(* Tables are bags of rows, written as functions from a row to the number  *)
(* of copies of it.  The output file is a sequence of lines.  A DAG run is *)
(* named by its execution date; each task is one step of its run.          *)
(* sku n stands for the code "SKU0000n" and supplier_code n for "SUP00n"   *)
(* (zero padded, so the string order is the numeric order).                *)
(***************************************************************************)
EXTENDS Integers, Sequences, FiniteSets

VARIABLES
    products,            \* postgresql.public.products
    replenishment_rules, \* postgresql.public.replenishment_rules
    supplier_products,   \* postgresql.public.supplier_products
    raw_orders,          \* /procurement/raw/orders/<date>, for each date
    raw_stock,           \* /procurement/raw/stock/<date>, for each date
    orders,              \* hive.default.orders, the lines it reads
    stock,               \* hive.default.stock, the records it reads
    net_demand,          \* hive.default.net_demand, or NoTable
    net_demand_csv,      \* <date>_net_demand.csv in HDFS, for each date
    supplier_orders,     \* supplier_orders_<date>.csv, for each date
    exceptions,          \* the findings validate_data_quality logged
    dq_results,          \* what its two queries returned
    pc,                  \* the task of each date's DAG run that is up next
    tries,               \* the failed tries of that task so far
    task_result,         \* the task each run ran last, and what it raised
    dag_runs,            \* how the earlier DAG runs of each date ended
    connection,          \* the with block of get_connection under way
    upload               \* what upload_to_hdfs found, ran and returned

vars == <<products, replenishment_rules, supplier_products, raw_orders,
          raw_stock, orders, stock, net_demand, net_demand_csv,
          supplier_orders, exceptions, dq_results, pc, tries, task_result,
          dag_runs, connection, upload>>

\* The master data, which no task of the DAG writes.
master == <<products, replenishment_rules, supplier_products>>

\* The raw partitions, which no task of the DAG writes.
raw == <<raw_orders, raw_stock>>

\* What validate_data_quality leaves in its log.
findings == <<exceptions, dq_results>>

\* The scripts run by hand, which no task of the DAG runs.
scripts == <<connection, upload>>

---------------------------------------------------------------------------
(* Bounds of the model and the values the inputs are drawn from.           *)

\* At most this many order lines in the day's partition.
MaxOrderLines == 2

\* At most this many stock records in the day's partition.
MaxStockRecords == 2

\* At most this many DAG runs for one execution date.
MaxRuns == 2

\* The execution dates of the DAG runs.
DayOne == "2026-01-01"
DayTwo == "2026-01-02"
Dates == {DayOne, DayTwo}

\* default_args: 'retries': 1.
Retries == 1

ProductIds == {1, 2}
SupplierIds == {1, 2}
Stores == {1, 2}
Warehouses == {1, 2}

\* A table that does not exist, and a table holding the bag rows.
NoTable == [exists |-> FALSE, rows |-> << >>]
Table(rows) == [exists |-> TRUE, rows |-> rows]

\* A file that does not exist, and a file holding the sequence lines.
NoFile == [exists |-> FALSE, lines |-> << >>]
File(lines) == [exists |-> TRUE, lines |-> lines]

\* A partition directory that does not exist, and one holding the set lines.
NoPartition == [exists |-> FALSE, lines |-> {}]
Partition(lines) == [exists |-> TRUE, lines |-> lines]

\* What subprocess.run returns for a command: the return code and the lines
\* printed, each line the tuple of its fields.  presto-cli prints a row as
\* one line of quoted fields, "a","b", and no header line.
Completed(returncode, stdout) == [returncode |-> returncode, stdout |-> stdout]

\* A failed command printed nothing to its standard output.
Failed == Completed(1, << >>)

\* The results of the two queries of validate_data_quality, before it ran.
NoResults == [unmapped |-> Failed, spikes |-> Failed]

\* What a task instance left behind: its task_id and the error its exception
\* carries, "" when it returned.
NoResult == [task |-> "none", error |-> ""]
Result(task, error) == [task |-> task, error |-> error]

\* No with block of get_connection has been entered.
NoConnection ==
    [pc |-> "none", caller |-> "none", conn |-> "None", calls |-> << >>,
     e |-> "", raised |-> "", uses |-> 0]

\* upload_to_hdfs has not been called.
NoUpload ==
    [execution_date |-> "none", orders_dir |-> FALSE, stock_dir |-> FALSE,
     order_files |-> {}, stock_files |-> {}, docker |-> FALSE,
     commands |-> << >>, returned |-> "not called"]

\* The quantity of an order line of each store.
StoreQuantity == <<100, 5>>

\* The available and reserved stock of a record of each warehouse.
WarehouseAvailable == <<60, 200>>
WarehouseReserved == <<10, 0>>

\* products.sku is unique (ON CONFLICT (sku)); product n carries sku n.
Product(p, active) == [product_id |-> p, sku |-> p, is_active |-> active]

\* suppliers.supplier_code is unique (ON CONFLICT (supplier_code)).
suppliers == {[supplier_id |-> s, supplier_code |-> s] : s \in SupplierIds}

\* The rules a product may carry: case sizes 12 and 24 and a minimum of 1 or
\* two cases, as generate_replenishment_rules draws them.
RuleChoices ==
    { [safety_stock |-> 20, case_size |-> 12,
       min_order_quantity |-> 24, max_order_quantity |-> 500],
      [safety_stock |-> 20, case_size |-> 24,
       min_order_quantity |-> 1, max_order_quantity |-> 500] }

Rule(p, c) ==
    [product_id |-> p, safety_stock |-> c.safety_stock,
     case_size |-> c.case_size, min_order_quantity |-> c.min_order_quantity,
     max_order_quantity |-> c.max_order_quantity]

OrderLine(st, k) ==
    [order_id |-> 10 * st + k, pos_store_id |-> st, sku |-> k,
     quantity |-> StoreQuantity[st]]

StockRecord(w, k) ==
    [warehouse_code |-> w, sku |-> k,
     available_stock |-> WarehouseAvailable[w],
     reserved_stock |-> WarehouseReserved[w]]

OrderPool == {OrderLine(st, k) : st \in Stores, k \in ProductIds}
StockPool == {StockRecord(w, k) : w \in Warehouses, k \in ProductIds}

Link(s, p, primary) ==
    [supplier_id |-> s, product_id |-> p, is_primary_supplier |-> primary]

\* The links one product can hold after link_products_to_suppliers has run
\* any number of times: the first supplier picked in a run is primary, a
\* second is not, and (supplier_id, product_id) is unique.
LinkChoices(p) ==
    { {},
      {Link(1, p, TRUE)},
      {Link(2, p, TRUE)},
      {Link(1, p, TRUE), Link(2, p, FALSE)},
      {Link(1, p, FALSE), Link(2, p, TRUE)},
      {Link(1, p, TRUE), Link(2, p, TRUE)} }

\* Product p supplied by supplier p alone.
PlainLinks == {Link(p, p, TRUE) : p \in ProductIds}

---------------------------------------------------------------------------
(* Helpers over bags and sequences.                                        *)

RECURSIVE SumOver(_, _)
SumOver(S, field) ==
    IF S = {} THEN 0
    ELSE LET x == CHOOSE y \in S : TRUE
         IN  x[field] + SumOver(S \ {x}, field)

Max(a, b) == IF a >= b THEN a ELSE b

RECURSIVE Perms(_)
Perms(S) ==
    IF S = {} THEN {<<>>}
    ELSE UNION {{<<x>> \o q : q \in Perms(S \ {x})} : x \in S}

---------------------------------------------------------------------------
(* Task instances.                                                         *)

\* task_init_schema >> task_check_data >> ... >> task_cleanup: the task
\* downstream of each task, "done" for the last.
Downstream(task) ==
    CASE task = "initialize_presto_schema" -> "check_data_availability"
      [] task = "check_data_availability" -> "create_hive_tables"
      [] task = "create_hive_tables" -> "validate_data_quality"
      [] task = "validate_data_quality" -> "calculate_net_demand"
      [] task = "calculate_net_demand" -> "generate_supplier_orders"
      [] task = "generate_supplier_orders" -> "cleanup_temp_tables"
      [] task = "cleanup_temp_tables" -> "done"

\* As Raise, were the downstream task run whatever became of the task.
RaiseAndGoOn(ds, task, error) ==
    /\ pc' = [pc EXCEPT ![ds] = Downstream(task)]
    /\ tries' = [tries EXCEPT ![ds] = 0]
    /\ task_result' = [task_result EXCEPT ![ds] = Result(task, error)]

\* The task returned: the task downstream of it (the chain of
\* dependencies) is up next.
Return(ds, task, downstream) ==
    /\ pc' = [pc EXCEPT ![ds] = downstream]
    /\ tries' = [tries EXCEPT ![ds] = 0]
    /\ task_result' = [task_result EXCEPT ![ds] = Result(task, "")]

\* The task raised: it is up for retry while it has retries left, and
\* failed, with its run, when it has none.
Raise(ds, task, error) ==
    /\ IF tries[ds] < Retries
       THEN /\ pc' = pc
            /\ tries' = [tries EXCEPT ![ds] = @ + 1]
       ELSE /\ pc' = [pc EXCEPT ![ds] = "failed"]
            /\ tries' = tries
    /\ task_result' = [task_result EXCEPT ![ds] = Result(task, error)]

---------------------------------------------------------------------------
(* Tasks 1 to 3: the schema, the day's partitions, the external tables.    *)

\* Task 1.  The task raises when the CREATE SCHEMA IF NOT EXISTS fails or
\* SHOW SCHEMAS does not print the schema.  The schema is not held by this
\* model.
initialize_presto_schema(ds) ==
    /\ pc[ds] = "initialize_presto_schema"
    /\ \E create_ok \in BOOLEAN, verify_ok \in BOOLEAN :
         IF create_ok /\ verify_ok
         THEN Return(ds, "initialize_presto_schema", "check_data_availability")
         ELSE Raise(ds, "initialize_presto_schema",
                    IF ~create_ok THEN "Failed to create Hive schema"
                    ELSE "Hive default schema not found after creation")
    /\ UNCHANGED <<master, raw, scripts, orders, stock, net_demand,
                   net_demand_csv, supplier_orders, findings, dag_runs>>

\* As ListPartition, were a missing directory listed as an empty one.
ListPartitionOrNothing(partition, hdfs_ok) ==
    Completed(IF hdfs_ok THEN 0 ELSE 1, << >>)

\* hdfs dfs -ls of a partition directory: the return code is not 0 when the
\* directory is missing or HDFS fails.
ListPartition(partition, hdfs_ok) ==
    Completed(IF partition.exists /\ hdfs_ok THEN 0 ELSE 1, << >>)

\* Task 2.  The task raises when the listing of the orders partition of its
\* date fails, and then when the listing of the stock partition does.
check_data_availability(ds) ==
    /\ pc[ds] = "check_data_availability"
    /\ \E hdfs_ok \in BOOLEAN :
         IF ListPartition(raw_orders[ds], hdfs_ok).returncode # 0
         THEN Raise(ds, "check_data_availability", "Orders data not found")
         ELSE IF ListPartition(raw_stock[ds], hdfs_ok).returncode # 0
         THEN Raise(ds, "check_data_availability", "Stock data not found")
         ELSE Return(ds, "check_data_availability", "create_hive_tables")
    /\ UNCHANGED <<master, raw, scripts, orders, stock, net_demand,
                   net_demand_csv, supplier_orders, findings, dag_runs>>

\* Task 3.  The two DROP TABLE IF EXISTS are run unchecked; the task raises
\* at the first CREATE TABLE that fails.  hive.default.orders and
\* hive.default.stock are external tables over the partitions of the run's
\* date, whatever the date they were over before.  Whether the two tables
\* exist is not held by this model: a table that is missing is one of the
\* errors of the queries that read it.
create_hive_tables(ds) ==
    /\ pc[ds] = "create_hive_tables"
    /\ \E orders_ok \in BOOLEAN, stock_ok \in BOOLEAN :
         /\ orders' = IF orders_ok THEN raw_orders[ds].lines ELSE orders
         /\ stock' = IF orders_ok /\ stock_ok THEN raw_stock[ds].lines
                     ELSE stock
         /\ IF orders_ok /\ stock_ok
            THEN Return(ds, "create_hive_tables", "validate_data_quality")
            ELSE Raise(ds, "create_hive_tables", "Failed to create tables")
    /\ UNCHANGED <<master, raw, scripts, net_demand, net_demand_csv,
                   supplier_orders, findings, dag_runs>>

---------------------------------------------------------------------------
(* validate_data_quality: the two checks of Task 4.                        *)

\* HAVING SUM(quantity) > 1000
SpikeThreshold == 1000

Warning == "WARNING: Products without supplier mappings detected"
Info == "INFO: Abnormal demand spike detected for some SKUs"

\* SELECT COUNT(DISTINCT p.sku) FROM products p LEFT JOIN supplier_products sp
\* ON p.product_id = sp.product_id
\* WHERE sp.supplier_id IS NULL AND p.is_active = TRUE
\* The left join gives a product the NULL row when it has no link at all,
\* primary or not.
UnmappedSkus ==
    Cardinality({ p.sku : p \in
        {p \in products :
            /\ \A sp \in supplier_products : sp.product_id # p.product_id
            /\ p.is_active} })

\* SELECT sku, SUM(quantity) FROM orders GROUP BY sku
\* HAVING SUM(quantity) > 1000
\* The outputs it may print: one line for each such sku, in any order.
SpikeQuery ==
    LET skus == {k \in {o.sku : o \in orders} :
                   SumOver({o \in orders : o.sku = k}, "quantity")
                       > SpikeThreshold}
        LineOf(k) == <<k, SumOver({o \in orders : o.sku = k}, "quantity")>>
    IN  {[i \in 1..Len(q) |-> LineOf(q[i])] : q \in Perms(skus)}

\* '"0"' in stdout: some field is printed as "0".  The fields are numbers
\* and sku codes, and of these only the number 0 is printed so.
ContainsQuotedZero(stdout) ==
    \E i \in 1..Len(stdout) : \E j \in 1..Len(stdout[i]) : stdout[i][j] = 0

\* stdout.strip().split('\n'): the lines printed; the split of the empty
\* string is the list of one empty string.
StripSplit(stdout) == IF stdout = << >> THEN << << >> >> ELSE stdout

\* As RaisesOnFindings is, were a finding an error.
RaisesOnAnyFinding(found) == found # << >>

\* The task prints its findings and ends with return True, whatever they are.
RaisesOnFindings(found) == FALSE

\* The list exceptions after the two tests.
Exceptions(unmapped, spikes) ==
    (IF ~ContainsQuotedZero(unmapped.stdout) THEN <<Warning>> ELSE << >>)
    \o (IF Len(StripSplit(spikes.stdout)) > 1 THEN <<Info>> ELSE << >>)

\* Task 4.  Neither query's return code is looked at: a query that failed
\* has printed nothing.
validate_data_quality(ds) ==
    /\ pc[ds] = "validate_data_quality"
    /\ \E count_ok \in BOOLEAN, spike_ok \in BOOLEAN, out \in SpikeQuery :
         LET unmapped == IF count_ok
                         THEN Completed(0, << <<UnmappedSkus>> >>)
                         ELSE Failed
             spikes == IF spike_ok THEN Completed(0, out) ELSE Failed
             found == Exceptions(unmapped, spikes)
         IN  /\ exceptions' = [exceptions EXCEPT ![ds] = found]
             /\ dq_results' = [dq_results EXCEPT ![ds] =
                                  [unmapped |-> unmapped, spikes |-> spikes]]
             /\ IF RaisesOnFindings(found)
                THEN Raise(ds, "validate_data_quality", "Exceptions detected")
                ELSE Return(ds, "validate_data_quality",
                            "calculate_net_demand")
    /\ UNCHANGED <<master, raw, scripts, orders, stock, net_demand,
                   net_demand_csv, supplier_orders, dag_runs>>

---------------------------------------------------------------------------
(* calculate_net_demand: the CREATE TABLE ... AS SELECT of Step 2.         *)

\* A LEFT JOIN's right side when no row matches: every column is NULL.
NullRow == [is_null |-> TRUE]

\* COALESCE(row.field, 0)
Coalesce(row, field) == IF row = NullRow THEN 0 ELSE row[field]

\* As OrdersBySku, were the order lines joined without the GROUP BY.
OrdersUngrouped ==
    {[sku |-> o.sku, total_quantity |-> o.quantity] : o \in orders}

\* SELECT sku, SUM(quantity) as total_quantity FROM orders GROUP BY sku
OrdersBySku ==
    { [sku |-> k,
       total_quantity |-> SumOver({o \in orders : o.sku = k}, "quantity")]
      : k \in {o.sku : o \in orders} }

\* As StockBySku, were the stock kept apart by warehouse.
StockByWarehouse ==
    { [sku |-> s.sku, total_available |-> s.available_stock,
       total_reserved |-> s.reserved_stock] : s \in stock }

\* SELECT sku, SUM(available_stock), SUM(reserved_stock) FROM stock
\* GROUP BY sku
StockBySku ==
    { [sku |-> k,
       total_available |->
           SumOver({s \in stock : s.sku = k}, "available_stock"),
       total_reserved |->
           SumOver({s \in stock : s.sku = k}, "reserved_stock")]
      : k \in {s.sku : s \in stock} }

\* As LeftJoinOnSku, were the join an inner join.
InnerJoinOnSku(T, k) == {x \in T : x.sku = k}

\* p LEFT JOIN T ON p.sku = T.sku: the rows of T that match, or one NULL row.
LeftJoinOnSku(T, k) ==
    IF {x \in T : x.sku = k} = {} THEN {NullRow} ELSE {x \in T : x.sku = k}

\* As NetDemandValue, were the reserved stock not added back.
NetDemandIgnoringReserved(total_quantity, safety_stock, total_available, total_reserved) ==
    Max(total_quantity + safety_stock - total_available, 0)

\* As NetDemandValue, without the floor at zero.
NetDemandNoFloor(total_quantity, safety_stock, total_available, total_reserved) ==
    total_quantity + safety_stock - (total_available - total_reserved)

\* GREATEST(orders + safety_stock - (available - reserved), 0)
NetDemandValue(total_quantity, safety_stock, total_available, total_reserved) ==
    Max(total_quantity + safety_stock - (total_available - total_reserved), 0)

\* The SELECT list, for one row of the join (product_name is carried along
\* unchanged and left out).
NetDemandRow(p, r, o, s) ==
    [sku |-> p.sku,
     aggregated_orders |-> Coalesce(o, "total_quantity"),
     available_stock |-> Coalesce(s, "total_available"),
     reserved_stock |-> Coalesce(s, "total_reserved"),
     safety_stock |-> r.safety_stock,
     net_demand |-> NetDemandValue(Coalesce(o, "total_quantity"),
                                   r.safety_stock,
                                   Coalesce(s, "total_available"),
                                   Coalesce(s, "total_reserved")),
     case_size |-> r.case_size,
     min_order_quantity |-> r.min_order_quantity]

\* As NetDemandJoin, were the rules LEFT JOINed and a missing rule read as
\* zeros.
NetDemandJoinZeroFill ==
    LET ZeroRule(p) ==
            [product_id |-> p.product_id, safety_stock |-> 0, case_size |-> 1,
             min_order_quantity |-> 0, max_order_quantity |-> 0]
        RulesOf(p) ==
            IF \E r \in replenishment_rules : r.product_id = p.product_id
            THEN {r \in replenishment_rules : r.product_id = p.product_id}
            ELSE {ZeroRule(p)}
    IN  UNION { {<<p, r, o, s>> : r \in RulesOf(p),
                                 o \in LeftJoinOnSku(OrdersBySku, p.sku),
                                 s \in LeftJoinOnSku(StockBySku, p.sku)}
                : p \in {q \in products : q.is_active} }

\* FROM products p JOIN replenishment_rules r ON p.product_id = r.product_id
\* LEFT JOIN (...) o ON p.sku = o.sku LEFT JOIN (...) s ON p.sku = s.sku
\* WHERE p.is_active = TRUE
NetDemandJoin ==
    { t \in products \X replenishment_rules
              \X (OrdersBySku \cup {NullRow}) \X (StockBySku \cup {NullRow}) :
        /\ t[1].product_id = t[2].product_id
        /\ t[3] \in LeftJoinOnSku(OrdersBySku, t[1].sku)
        /\ t[4] \in LeftJoinOnSku(StockBySku, t[1].sku)
        /\ t[1].is_active }

\* The table the CREATE TABLE AS makes: one row per row of the join.
NetDemandQuery ==
    LET RowOf(t) == NetDemandRow(t[1], t[2], t[3], t[4])
    IN  [row \in {RowOf(t) : t \in NetDemandJoin} |->
            Cardinality({t \in NetDemandJoin : RowOf(t) = row})]

\* What Presto answers to the CREATE TABLE: an error when the table is still
\* there, or when Presto fails.
CreateError(after_drop, create_ok) ==
    IF after_drop.exists THEN "Table already exists"
    ELSE IF ~create_ok THEN "Presto error"
    ELSE ""

\* As ReturnCodeChecked, were the return code of the CREATE not read.
ReturnCodeIgnored(error) == FALSE

\* if result.returncode != 0: raise
ReturnCodeChecked(error) == error # ""

\* Task 5.  The DROP TABLE IF EXISTS is run unchecked; the task raises when
\* the CREATE fails, which leaves the table as the DROP left it.  The export
\* of the table to HDFS is unchecked too, and overwrites the file of the
\* run's date (-put -f).  The export of the aggregated orders writes a file
\* this model does not hold.
calculate_net_demand(ds) ==
    /\ pc[ds] = "calculate_net_demand"
    /\ \E drop_ok \in BOOLEAN, create_ok \in BOOLEAN, export_ok \in BOOLEAN :
         LET after_drop == IF drop_ok THEN NoTable ELSE net_demand
             error == CreateError(after_drop, create_ok)
             created == IF error = "" THEN Table(NetDemandQuery)
                        ELSE after_drop
         IN  /\ net_demand' = created
             /\ IF ReturnCodeChecked(error)
                THEN /\ net_demand_csv' = net_demand_csv
                     /\ Raise(ds, "calculate_net_demand", error)
                ELSE /\ net_demand_csv' =
                           IF export_ok /\ created.exists
                           THEN [net_demand_csv EXCEPT ![ds] = created]
                           ELSE net_demand_csv
                     /\ Return(ds, "calculate_net_demand",
                               "generate_supplier_orders")
    /\ UNCHANGED <<master, raw, scripts, orders, stock, supplier_orders,
                   findings, dag_runs>>

---------------------------------------------------------------------------
(* generate_supplier_orders: the SELECT of Task 6.                         *)

\* nd.net_demand * 1.0: Presto reads the literal 1.0 as DECIMAL(2,1), so the
\* product is a DECIMAL of scale 1; the result is its unscaled value.
TimesOnePointZero(n) == 10 * n

\* x / nd.case_size for x a DECIMAL of scale 1 (unscaled value u) and
\* case_size an INTEGER, that is a DECIMAL of scale 0: Presto's quotient has
\* scale max(1, 0) = 1 and is rounded half up.  The result is its unscaled
\* value.
DecimalDivide(u, d) == (2 * u + d) \div (2 * d)

\* CEIL of a DECIMAL of scale 1 with unscaled value u.
Ceil(u) == -((-u) \div 10)

\* CAST(CEIL(nd.net_demand * 1.0 / nd.case_size) * nd.case_size AS INTEGER)
OrderQuantity(net, case_size) ==
    Ceil(DecimalDivide(TimesOnePointZero(net), case_size)) * case_size

\* The rows of hive.default.net_demand, each copy on its own.
NetDemandRows ==
    UNION {{<<row, i>> : i \in 1..net_demand.rows[row]} :
              row \in DOMAIN net_demand.rows}

\* As OrderLineFilter, without the test of net_demand.
OrderLineFilterAnyDemand(nd, sp) == sp.is_primary_supplier

\* WHERE sp.is_primary_supplier = TRUE AND nd.net_demand > 0
OrderLineFilter(nd, sp) == sp.is_primary_supplier /\ nd.net_demand > 0

\* FROM net_demand nd JOIN products p ON nd.sku = p.sku
\* JOIN supplier_products sp ON p.product_id = sp.product_id
\* JOIN suppliers s ON sp.supplier_id = s.supplier_id WHERE ...
SupplierOrderJoin ==
    { t \in NetDemandRows \X products \X supplier_products \X suppliers :
        /\ t[1][1].sku = t[2].sku
        /\ t[2].product_id = t[3].product_id
        /\ t[3].supplier_id = t[4].supplier_id
        /\ OrderLineFilter(t[1][1], t[3]) }

\* The SELECT list, for one row of the join (the two names are left out).
SupplierOrderLine(nd, s) ==
    [supplier_code |-> s.supplier_code,
     sku |-> nd.sku,
     net_demand |-> nd.net_demand,
     case_size |-> nd.case_size,
     order_quantity |-> OrderQuantity(nd.net_demand, nd.case_size)]

\* As OrderBy, were the lines ordered by sku alone.
OrderBySkuOnly(a, b) == a.sku <= b.sku

\* ORDER BY s.supplier_code, nd.sku: line a may come before line b.
OrderBy(a, b) ==
    \/ a.supplier_code < b.supplier_code
    \/ a.supplier_code = b.supplier_code /\ a.sku <= b.sku

\* The outputs the query may print: the lines of the join in any order that
\* ORDER BY allows.
SupplierOrdersQuery ==
    LET LineOf(t) == SupplierOrderLine(t[1][1], t[4])
        Ordered(q) == \A i \in 1..(Len(q) - 1) :
                          OrderBy(LineOf(q[i]), LineOf(q[i + 1]))
    IN  { [i \in 1..Len(q) |-> LineOf(q[i])] :
            q \in {q \in Perms(SupplierOrderJoin) : Ordered(q)} }

\* As SelectError, were a SELECT that prints no row an error too.
SelectErrorWhenEmpty(query_ok) ==
    IF ~net_demand.exists THEN "Table does not exist"
    ELSE IF ~query_ok THEN "Presto error"
    ELSE IF \E t \in SupplierOrderJoin : t[1][1].case_size = 0
         THEN "Division by zero"
    ELSE IF SupplierOrderJoin = {} THEN "No supplier orders"
    ELSE ""

\* What Presto answers to the SELECT: an error when the net_demand table is
\* missing, when Presto fails, or when a row of the join has a case_size of
\* 0, which the division cannot take.
SelectError(query_ok) ==
    IF ~net_demand.exists THEN "Table does not exist"
    ELSE IF ~query_ok THEN "Presto error"
    ELSE IF \E t \in SupplierOrderJoin : t[1][1].case_size = 0
         THEN "Division by zero"
    ELSE ""

\* As WriteFile, were the file opened to append.
AppendFile(old, lines) == File(old.lines \o lines)

\* with open(local_path, 'w') as f: f.write(result.stdout)
WriteFile(old, lines) == File(lines)

\* Task 6.  The task raises when Presto reports an error; otherwise it writes
\* what the query printed to the output file of the run's date.  The copy
\* put to HDFS is not held by this model.
generate_supplier_orders(ds) ==
    /\ pc[ds] = "generate_supplier_orders"
    /\ \E query_ok \in BOOLEAN :
         LET error == SelectError(query_ok)
         IN  IF error = ""
             THEN /\ \E out \in SupplierOrdersQuery :
                       supplier_orders' =
                           [supplier_orders EXCEPT ![ds] = WriteFile(@, out)]
                  /\ Return(ds, "generate_supplier_orders",
                            "cleanup_temp_tables")
             ELSE /\ supplier_orders' = supplier_orders
                  /\ Raise(ds, "generate_supplier_orders", error)
    /\ UNCHANGED <<master, raw, scripts, orders, stock, net_demand,
                   net_demand_csv, findings, dag_runs>>

\* Task 7.  DROP TABLE IF EXISTS hive.default.net_demand, run unchecked.
cleanup_temp_tables(ds) ==
    /\ pc[ds] = "cleanup_temp_tables"
    /\ \E drop_ok \in BOOLEAN :
         net_demand' = IF drop_ok THEN NoTable ELSE net_demand
    /\ Return(ds, "cleanup_temp_tables", "done")
    /\ UNCHANGED <<master, raw, scripts, orders, stock, net_demand_csv,
                   supplier_orders, findings, dag_runs>>

---------------------------------------------------------------------------
(* The run of one day.                                                     *)

RECURSIVE LinkSets(_)
LinkSets(P) ==
    IF P = {} THEN {{}}
    ELSE LET p == CHOOSE x \in P : TRUE
         IN  {a \cup b : a \in LinkChoices(p), b \in LinkSets(P \ {p})}

\* The master data is any content the tables' unique keys allow; the day's
\* partitions hold any lines of the pools, up to the bounds.  The run starts
\* with no net_demand table and no output file.  Either the links are plain
\* and the day's data varies, or the links vary over a day with at most one
\* order line and no stock record.
Init ==
    /\ products \in {{Product(p, a[p]) : p \in ProductIds} :
                        a \in [ProductIds -> BOOLEAN]}
    /\ replenishment_rules \in
           UNION {{{Rule(p, c[p]) : p \in S} : c \in [S -> RuleChoices]} :
                     S \in SUBSET ProductIds}
    /\ supplier_products \in LinkSets(ProductIds)
    /\ orders \in {S \in SUBSET OrderPool : Cardinality(S) <= MaxOrderLines}
    /\ stock \in {S \in SUBSET StockPool : Cardinality(S) <= MaxStockRecords}
    /\ \/ supplier_products = PlainLinks
       \/ Cardinality(orders) <= 1 /\ stock = {}
    /\ raw_orders = [d \in Dates |->
                        IF d = DayOne THEN Partition(orders) ELSE NoPartition]
    /\ raw_stock = [d \in Dates |->
                       IF d = DayOne THEN Partition(stock) ELSE NoPartition]
    /\ net_demand = NoTable
    /\ net_demand_csv = [d \in Dates |-> NoTable]
    /\ supplier_orders = [d \in Dates |-> NoFile]
    /\ exceptions = [d \in Dates |-> << >>]
    /\ dq_results = [d \in Dates |-> NoResults]
    /\ pc = [d \in Dates |->
                IF d = DayOne THEN "calculate_net_demand" ELSE "none"]
    /\ tries = [d \in Dates |-> 0]
    /\ task_result = [d \in Dates |-> NoResult]
    /\ dag_runs = [d \in Dates |-> << >>]
    /\ connection = NoConnection
    /\ upload = NoUpload

Next ==
    \E ds \in Dates :
        \/ calculate_net_demand(ds)
        \/ generate_supplier_orders(ds)
        \/ cleanup_temp_tables(ds)

Spec == Init /\ [][Next]_vars

---------------------------------------------------------------------------
(* The whole DAG run of one day, from its first task.                      *)

\* The quantity of an order line of each store, on a day of heavy demand.
HeavyQuantity == <<1500, 1000>>

HeavyOrderLine(st, k) ==
    [order_id |-> 10 * st + k, pos_store_id |-> st, sku |-> k,
     quantity |-> HeavyQuantity[st]]

HeavyOrderPool == {HeavyOrderLine(st, k) : st \in Stores, k \in ProductIds}

\* The rules a product may carry when the master data is not the generated
\* one: a case size of 12, or of 0.
AnyRuleChoices ==
    { [safety_stock |-> 20, case_size |-> 12,
       min_order_quantity |-> 24, max_order_quantity |-> 500],
      [safety_stock |-> 20, case_size |-> 0,
       min_order_quantity |-> 1, max_order_quantity |-> 500] }

\* The links a product may hold when the master data is not the generated
\* one: none, a primary one, or one that is not primary.
AnyLinkChoices(p) == { {}, {Link(p, p, TRUE)}, {Link(p, p, FALSE)} }

\* A partition is missing, or holds any lines of the pool up to the bound.
Partitions(pool, max) ==
    {NoPartition} \cup
    {Partition(S) : S \in {S \in SUBSET pool : Cardinality(S) <= max}}

\* The run of DayOne starts at its first task; nothing has run before it.
\* Either the rules are plain and the links, the products and the orders
\* vary, or the links are plain and the rules and the stock vary.
InitDag ==
    /\ products \in {{Product(1, TRUE), Product(2, a)} : a \in BOOLEAN}
    /\ replenishment_rules \in
           UNION {{{Rule(p, c[p]) : p \in S} : c \in [S -> AnyRuleChoices]} :
                     S \in SUBSET ProductIds}
    /\ supplier_products \in
           {a \cup b : a \in AnyLinkChoices(1), b \in AnyLinkChoices(2)}
    /\ raw_orders \in
           {[d \in Dates |-> IF d = DayOne THEN part ELSE NoPartition] :
               part \in Partitions(HeavyOrderPool, MaxOrderLines)}
    /\ raw_stock \in
           {[d \in Dates |-> IF d = DayOne THEN part ELSE NoPartition] :
               part \in Partitions(StockPool, MaxStockRecords)}
    /\ \/ /\ replenishment_rules \in
                 {{Rule(p, c) : p \in ProductIds} : c \in AnyRuleChoices}
          /\ raw_stock[DayOne].lines = {}
       \/ /\ supplier_products = PlainLinks
          /\ products = {Product(p, TRUE) : p \in ProductIds}
          /\ raw_orders[DayOne].exists
          /\ Cardinality(raw_orders[DayOne].lines) <= 1
          /\ raw_stock[DayOne].exists
    /\ orders = {}
    /\ stock = {}
    /\ net_demand = NoTable
    /\ net_demand_csv = [d \in Dates |-> NoTable]
    /\ supplier_orders = [d \in Dates |-> NoFile]
    /\ exceptions = [d \in Dates |-> << >>]
    /\ dq_results = [d \in Dates |-> NoResults]
    /\ pc = [d \in Dates |->
                IF d = DayOne THEN "initialize_presto_schema" ELSE "none"]
    /\ tries = [d \in Dates |-> 0]
    /\ task_result = [d \in Dates |-> NoResult]
    /\ dag_runs = [d \in Dates |-> << >>]
    /\ connection = NoConnection
    /\ upload = NoUpload

\* The tasks of the DAG, each run when the one upstream of it has returned.
Tasks(ds) ==
    \/ initialize_presto_schema(ds)
    \/ check_data_availability(ds)
    \/ create_hive_tables(ds)
    \/ validate_data_quality(ds)
    \/ calculate_net_demand(ds)
    \/ generate_supplier_orders(ds)
    \/ cleanup_temp_tables(ds)

NextDag == \E ds \in Dates : Tasks(ds)

SpecDag == InitDag /\ [][NextDag]_vars

---------------------------------------------------------------------------
(* The DAG run of one date, run again when it has ended.                   *)

\* A new DAG run for a date whose run has ended (the run is cleared, or
\* triggered again): its first task is up next, and its tasks have logged
\* nothing yet.  The tables and the files stay as the last run left them.
trigger_dag_run(ds) ==
    /\ pc[ds] \in {"done", "failed"}
    /\ Len(dag_runs[ds]) + 1 < MaxRuns
    /\ dag_runs' = [dag_runs EXCEPT ![ds] =
                       Append(@, IF pc[ds] = "done" THEN "success"
                                 ELSE "failed")]
    /\ pc' = [pc EXCEPT ![ds] = "initialize_presto_schema"]
    /\ tries' = [tries EXCEPT ![ds] = 0]
    /\ task_result' = [task_result EXCEPT ![ds] = NoResult]
    /\ exceptions' = [exceptions EXCEPT ![ds] = << >>]
    /\ dq_results' = [dq_results EXCEPT ![ds] = NoResults]
    /\ UNCHANGED <<master, raw, scripts, orders, stock, net_demand,
                   net_demand_csv, supplier_orders>>

\* The inputs do not change between the runs: two active products with
\* plain rules and links, at most one order line of DayOne and at most one
\* stock record, of warehouse 1 and sku 1.
InitRerun ==
    /\ InitDag
    /\ replenishment_rules =
           {Rule(p, CHOOSE c \in AnyRuleChoices : c.case_size # 0) :
               p \in ProductIds}
    /\ supplier_products = PlainLinks
    /\ raw_stock[DayOne].lines \subseteq {StockRecord(1, 1)}

NextRerun == \E ds \in Dates : trigger_dag_run(ds) \/ Tasks(ds)

SpecRerun == InitRerun /\ [][NextRerun]_vars

---------------------------------------------------------------------------
(* The DAG runs of two dates, side by side.                                *)

\* Both runs are at their first task.  The master data is plain; each
\* date's orders partition holds the line of store 1 and sku 1 or nothing,
\* and each date's stock partition is empty.
InitTwoDates ==
    /\ products = {Product(p, TRUE) : p \in ProductIds}
    /\ replenishment_rules =
           {Rule(p, CHOOSE c \in AnyRuleChoices : c.case_size # 0) :
               p \in ProductIds}
    /\ supplier_products = PlainLinks
    /\ raw_orders \in
           [Dates -> {Partition(S) : S \in SUBSET {HeavyOrderLine(1, 1)}}]
    /\ raw_stock = [d \in Dates |-> Partition({})]
    /\ orders = {}
    /\ stock = {}
    /\ net_demand = NoTable
    /\ net_demand_csv = [d \in Dates |-> NoTable]
    /\ supplier_orders = [d \in Dates |-> NoFile]
    /\ exceptions = [d \in Dates |-> << >>]
    /\ dq_results = [d \in Dates |-> NoResults]
    /\ pc = [d \in Dates |-> "initialize_presto_schema"]
    /\ tries = [d \in Dates |-> 0]
    /\ task_result = [d \in Dates |-> NoResult]
    /\ dag_runs = [d \in Dates |-> << >>]
    /\ connection = NoConnection
    /\ upload = NoUpload

\* The tasks of the two runs interleave in any order.
SpecTwoDates == InitTwoDates /\ [][NextDag]_vars

---------------------------------------------------------------------------
(* The scripts that fill the master data (scripts/data_generation).        *)

\* generate_products(num_products): the products SKU00001 to
\* SKU<num_products>, each active or not.
GeneratedProducts ==
    UNION {{{Product(i, a[i]) : i \in 1..n} : a \in [1..n -> BOOLEAN]} :
              n \in ProductIds}

\* INSERT INTO products ... ON CONFLICT (sku) DO NOTHING
insert_products_to_db ==
    /\ \E new \in GeneratedProducts :
         products' = products \cup
             {p \in new : \A q \in products : q.sku # p.sku}
    /\ UNCHANGED <<replenishment_rules, supplier_products, raw, scripts,
                   orders, stock, net_demand, net_demand_csv, supplier_orders,
                   findings, pc, tries, task_result, dag_runs>>

\* random.sample(suppliers, min(random.randint(1, 2), len(suppliers))): one
\* supplier, or two different ones in either order.
SelectedSuppliers ==
    {<<s>> : s \in SupplierIds} \cup
    {q \in {<<s, t>> : s \in SupplierIds, t \in SupplierIds} : q[1] # q[2]}

\* The mappings of one product: the first supplier selected is primary.
Mappings(p, selected) ==
    {Link(selected[idx], p.product_id, idx = 1) : idx \in 1..Len(selected)}

\* The script returns when there is no product or no supplier.  Else every
\* product, active or not, gets the mappings of a fresh selection, and
\* INSERT ... ON CONFLICT (supplier_id, product_id) DO NOTHING leaves out
\* the pairs that are linked already.
link_products_to_suppliers ==
    /\ products # {} /\ suppliers # {}
    /\ \E selected \in [products -> SelectedSuppliers] :
         supplier_products' = supplier_products \cup
             {m \in UNION {Mappings(p, selected[p]) : p \in products} :
                 \A sp \in supplier_products :
                     ~(sp.supplier_id = m.supplier_id
                         /\ sp.product_id = m.product_id)}
    /\ UNCHANGED <<products, replenishment_rules, raw, scripts, orders, stock,
                   net_demand, net_demand_csv, supplier_orders, findings, pc,
                   tries, task_result, dag_runs>>

\* As InsertRules, were a conflict resolved by updating the row.
UpsertRules(old, new) ==
    {r \in old : \A n \in new : n.product_id # r.product_id} \cup new

\* INSERT INTO replenishment_rules ... ON CONFLICT (product_id) DO NOTHING
InsertRules(old, new) ==
    old \cup {n \in new : \A r \in old : r.product_id # n.product_id}

\* The script returns when there is no active product.  Else it draws one
\* rule for every active product and inserts them.
generate_replenishment_rules ==
    /\ \E p \in products : p.is_active
    /\ LET ids == {p.product_id : p \in {q \in products : q.is_active}}
       IN  \E c \in [ids -> RuleChoices] :
               replenishment_rules' =
                   InsertRules(replenishment_rules,
                               {Rule(i, c[i]) : i \in ids})
    /\ UNCHANGED <<products, supplier_products, raw, scripts, orders, stock,
                   net_demand, net_demand_csv, supplier_orders, findings, pc,
                   tries, task_result, dag_runs>>

\* The database is empty and no DAG run has started.
InitSeed ==
    /\ products = {}
    /\ replenishment_rules = {}
    /\ supplier_products = {}
    /\ raw_orders = [d \in Dates |-> NoPartition]
    /\ raw_stock = [d \in Dates |-> NoPartition]
    /\ orders = {}
    /\ stock = {}
    /\ net_demand = NoTable
    /\ net_demand_csv = [d \in Dates |-> NoTable]
    /\ supplier_orders = [d \in Dates |-> NoFile]
    /\ exceptions = [d \in Dates |-> << >>]
    /\ dq_results = [d \in Dates |-> NoResults]
    /\ pc = [d \in Dates |-> "none"]
    /\ tries = [d \in Dates |-> 0]
    /\ task_result = [d \in Dates |-> NoResult]
    /\ dag_runs = [d \in Dates |-> << >>]
    /\ connection = NoConnection
    /\ upload = NoUpload

\* The scripts are run by hand, any number of times, in any order.
NextSeed ==
    \/ insert_products_to_db
    \/ link_products_to_suppliers
    \/ generate_replenishment_rules

SpecSeed == InitSeed /\ [][NextSeed]_vars

---------------------------------------------------------------------------
(* Properties of calculate_net_demand.                                     *)

\* The rows of the net_demand table that carry sku k.
RowsOfSku(k) == {row \in DOMAIN net_demand.rows : row.sku = k}

RECURSIVE CopiesIn(_)
CopiesIn(R) ==
    IF R = {} THEN 0
    ELSE LET row == CHOOSE x \in R : TRUE
         IN  net_demand.rows[row] + CopiesIn(R \ {row})

RECURSIVE Total(_, _)
Total(S, field) ==
    IF S = {} THEN 0
    ELSE LET x == CHOOSE y \in S : TRUE IN x[field] + Total(S \ {x}, field)

HasRule(p) == \E r \in replenishment_rules : r.product_id = p.product_id

\* The day's totals of sku k: absent lines and records count as 0.
DayOrders(k) == Total({o \in orders : o.sku = k}, "quantity")
DayAvailable(k) == Total({s \in stock : s.sku = k}, "available_stock")
DayReserved(k) == Total({s \in stock : s.sku = k}, "reserved_stock")

\* C1: every active product with a rule has a net_demand row, and the row's
\* net_demand is max(orders + safety_stock - (available - reserved), 0) over
\* the day's per-SKU sums.
C1_NetDemandFormula ==
    net_demand.exists =>
        \A p \in products, r \in replenishment_rules :
            (p.is_active /\ r.product_id = p.product_id) =>
                /\ RowsOfSku(p.sku) # {}
                /\ \A row \in RowsOfSku(p.sku) :
                     LET x == DayOrders(p.sku) + r.safety_stock
                                - (DayAvailable(p.sku) - DayReserved(p.sku))
                     IN  row.net_demand = IF x > 0 THEN x ELSE 0

\* Scenario A is computed: orders 100, safety 20, available 60, reserved 10
\* give 70.
C1_Witness ==
    /\ net_demand.exists
    /\ \E row \in DOMAIN net_demand.rows :
         /\ row.aggregated_orders = 100 /\ row.safety_stock = 20
         /\ row.available_stock = 60 /\ row.reserved_stock = 10
         /\ row.net_demand = 70

\* C2: no row of the net_demand table has a negative net_demand.
C2_NetDemandNonNegative ==
    net_demand.exists => \A row \in DOMAIN net_demand.rows : row.net_demand >= 0

\* An overstocked SKU is in the table, with net_demand 0.
C2_Witness ==
    /\ net_demand.exists
    /\ \E row \in DOMAIN net_demand.rows :
         /\ row.available_stock - row.reserved_stock
              > row.aggregated_orders + row.safety_stock
         /\ row.net_demand = 0

\* C3: an active product with a rule and neither an order line nor a stock
\* record that day has a row, and its net_demand is the rule's safety_stock.
C3_NoDataGivesSafetyStock ==
    net_demand.exists =>
        \A p \in products, r \in replenishment_rules :
            ( /\ p.is_active /\ r.product_id = p.product_id
              /\ \A o \in orders : o.sku # p.sku
              /\ \A s \in stock : s.sku # p.sku ) =>
                /\ RowsOfSku(p.sku) # {}
                /\ \A row \in RowsOfSku(p.sku) : row.net_demand = r.safety_stock

\* Such a product is there when the table has been made, beside a product
\* that has order lines.
C3_Witness ==
    /\ net_demand.exists
    /\ orders # {}
    /\ \E p \in products :
         /\ p.is_active /\ HasRule(p)
         /\ \A o \in orders : o.sku # p.sku
         /\ \A s \in stock : s.sku # p.sku
         /\ RowsOfSku(p.sku) # {}

\* C4: a product without a replenishment rule has no row in the net_demand
\* table, whatever its order lines and stock records.
C4_NoRuleNoRow ==
    net_demand.exists =>
        \A p \in products : ~HasRule(p) => RowsOfSku(p.sku) = {}

\* An active product without a rule has an order line and a stock record when
\* the table has been made.
C4_Witness ==
    /\ net_demand.exists
    /\ \E p \in products :
         /\ p.is_active /\ ~HasRule(p)
         /\ \E o \in orders : o.sku = p.sku
         /\ \E s \in stock : s.sku = p.sku

\* C5: the net_demand table holds exactly one row for each active product
\* that has a rule, none for any other product, and no row of another sku.
C5_OneRowPerProduct ==
    net_demand.exists =>
        /\ \A p \in products :
             CopiesIn(RowsOfSku(p.sku)) =
                 IF p.is_active /\ HasRule(p) THEN 1 ELSE 0
        /\ \A row \in DOMAIN net_demand.rows :
             \E p \in products : p.sku = row.sku

\* One product has two order lines and two stock records and a row; the
\* other is inactive, has a rule, and has no row.
C5_Witness ==
    /\ net_demand.exists
    /\ \E p \in products :
         /\ Cardinality({o \in orders : o.sku = p.sku}) = 2
         /\ Cardinality({s \in stock : s.sku = p.sku}) = 2
         /\ CopiesIn(RowsOfSku(p.sku)) = 1
    /\ \E p \in products :
         /\ ~p.is_active /\ HasRule(p)
         /\ RowsOfSku(p.sku) = {}

---------------------------------------------------------------------------
(* Properties of generate_supplier_orders.                                 *)

\* The i-th line of the output file of DayOne, the date of the run.
Line(i) == supplier_orders[DayOne].lines[i]

\* The lines of the output file of DayOne.
Lines ==
    {supplier_orders[DayOne].lines[i] :
        i \in 1..Len(supplier_orders[DayOne].lines)}

\* The primary-supplier links of product p.
PrimaryLinks(p) ==
    {sp \in supplier_products :
        sp.product_id = p.product_id /\ sp.is_primary_supplier}

\* C6: every order line's order_quantity is a multiple of its case_size and
\* is at least its net_demand.
C6_CaseMultipleCoversDemand ==
    supplier_orders[DayOne].exists =>
        \A l \in Lines :
            /\ l.order_quantity % l.case_size = 0
            /\ l.order_quantity >= l.net_demand

\* C7: every order line's order_quantity is ceil(net_demand / case_size) *
\* case_size, the smallest multiple of case_size that is >= net_demand,
\* whatever the rule's minimum and maximum order quantities.
C7_SmallestCaseMultiple ==
    supplier_orders[DayOne].exists =>
        \A l \in Lines :
            l.order_quantity =
                ((l.net_demand + l.case_size - 1) \div l.case_size) * l.case_size

\* C8: every order line comes from a net_demand row with net_demand > 0, no
\* two lines share (supplier_code, sku), and a SKU whose net_demand is 0 has
\* no line.
C8_OnlyPositiveDemandOncePerPair ==
    supplier_orders[DayOne].exists =>
        /\ \A l \in Lines : l.net_demand > 0
        /\ \A i, j \in 1..Len(supplier_orders[DayOne].lines) :
             ( /\ Line(i).supplier_code = Line(j).supplier_code
               /\ Line(i).sku = Line(j).sku )
             => i = j
        /\ net_demand.exists =>
             /\ \A l \in Lines :
                  \E row \in RowsOfSku(l.sku) : row.net_demand = l.net_demand
             /\ \A row \in DOMAIN net_demand.rows :
                  row.net_demand = 0 => \A l \in Lines : l.sku # row.sku

\* Scenario B is computed (orders 0, available 200, reserved 0, safety 20 give
\* 0) for a product that has a primary supplier, and the file, written, holds
\* a line of the other SKU and none of this one.
C8_Witness ==
    /\ supplier_orders[DayOne].exists /\ net_demand.exists
    /\ \E row \in DOMAIN net_demand.rows :
         /\ row.aggregated_orders = 0 /\ row.available_stock = 200
         /\ row.reserved_stock = 0 /\ row.safety_stock = 20
         /\ row.net_demand = 0
         /\ \E p \in products : p.sku = row.sku /\ PrimaryLinks(p) # {}
         /\ \A l \in Lines : l.sku # row.sku
    /\ Lines # {}

\* C9: the lines of the output file are in ascending order of
\* (supplier_code, sku).
C9_SortedBySupplierThenSku ==
    supplier_orders[DayOne].exists =>
        \A i \in 1..(Len(supplier_orders[DayOne].lines) - 1) :
            LET a == Line(i)
                b == Line(i + 1)
            IN  \/ a.supplier_code < b.supplier_code
                \/ a.supplier_code = b.supplier_code /\ a.sku <= b.sku

\* The file holds three lines or more, of two suppliers, and a line of a
\* larger sku comes before a line of a smaller one.
C9_Witness ==
    /\ supplier_orders[DayOne].exists
    /\ Len(supplier_orders[DayOne].lines) >= 3
    /\ \E i, j \in 1..Len(supplier_orders[DayOne].lines) :
         /\ i < j
         /\ Line(i).supplier_code < Line(j).supplier_code
         /\ Line(i).sku > Line(j).sku

\* C10: a SKU with net_demand > 0 and two or more primary-supplier links gets
\* no order line, so the output never holds two lines for one SKU.
C10_AmbiguousSupplierSkipped ==
    supplier_orders[DayOne].exists =>
        /\ \A p \in products :
             Cardinality(PrimaryLinks(p)) >= 2 =>
                 \A l \in Lines : l.sku # p.sku
        /\ \A i, j \in 1..Len(supplier_orders[DayOne].lines) :
             Line(i).sku = Line(j).sku
             => i = j

---------------------------------------------------------------------------
(* Properties of the whole run of DayOne: the data-quality findings, the   *)
(* errors of the tasks, and what the run leaves behind.                    *)

\* The finding is in the list validate_data_quality logged for date d.
Logged(d, finding) ==
    \E i \in 1..Len(exceptions[d]) : exceptions[d][i] = finding

\* The task of the run of date d that ran last is this one, and it returned.
Returned(d, task) == task_result[d] = Result(task, "")

\* C11: a SKU with net_demand > 0 that has no primary-supplier link gets no
\* order line, and the run that drops it has logged the WARNING finding.
C11_UnmappedDemandReported ==
    Returned(DayOne, "generate_supplier_orders") =>
        \A row \in DOMAIN net_demand.rows : \A p \in products :
            (p.sku = row.sku /\ row.net_demand > 0 /\ PrimaryLinks(p) = {}) =>
                /\ \A l \in Lines : l.sku # row.sku
                /\ Logged(DayOne, Warning)

\* C12: a rule with case_size < 1 does not make generate_supplier_orders
\* raise: the task never ends with the error of a division by zero.
C12_InvalidCaseSizeNotRaised ==
    task_result[DayOne].task = "generate_supplier_orders" =>
        task_result[DayOne].error # "Division by zero"

\* C13: when the count query has succeeded, the WARNING finding is logged
\* exactly when some active product has no link with
\* is_primary_supplier = true.
C13_WarningIffNoPrimaryLink ==
    (pc[DayOne] = "calculate_net_demand"
        /\ dq_results[DayOne].unmapped.returncode = 0) =>
        (Logged(DayOne, Warning) <=>
            \E p \in products : p.is_active /\ PrimaryLinks(p) = {})

\* C14: when the spike query has succeeded, the INFO finding is logged
\* exactly when the summed quantity of at least one SKU in the day's orders
\* is greater than 1000.
C14_InfoIffSpike ==
    (pc[DayOne] = "calculate_net_demand"
        /\ dq_results[DayOne].spikes.returncode = 0) =>
        (Logged(DayOne, Info) <=>
            \E k \in ProductIds : DayOrders(k) > SpikeThreshold)

\* C15: validate_data_quality returns whatever it found: after it has run,
\* it has raised nothing and calculate_net_demand is up next, on its first
\* try.
C15_FindingsNeverAbort ==
    \A d \in Dates :
        task_result[d].task = "validate_data_quality" =>
            /\ task_result[d].error = ""
            /\ pc[d] = "calculate_net_demand"
            /\ tries[d] = 0

\* Both queries succeeded, both findings were logged, and the run went on to
\* write an output file that holds a line.
C15_Witness ==
    /\ dq_results[DayOne].unmapped.returncode = 0
    /\ dq_results[DayOne].spikes.returncode = 0
    /\ exceptions[DayOne] = <<Warning, Info>>
    /\ supplier_orders[DayOne].exists
    /\ Lines # {}

\* No row of the net_demand table has a positive net_demand.
NoPositiveDemand == \A row \in DOMAIN net_demand.rows : row.net_demand <= 0

\* C18: when no SKU has a positive net demand, generate_supplier_orders
\* raises nothing but an error of Presto itself, and when it returns the
\* output file holds no line and cleanup_temp_tables is up next.
C18_NoDemandNoLinesNoError ==
    (task_result[DayOne].task = "generate_supplier_orders"
        /\ net_demand.exists /\ NoPositiveDemand) =>
        /\ task_result[DayOne].error \in {"", "Presto error"}
        /\ task_result[DayOne].error = "" =>
             /\ supplier_orders[DayOne] = File(<< >>)
             /\ pc[DayOne] = "cleanup_temp_tables"

\* The table holds a row, every row has a net_demand of 0, the product of a
\* row has a primary supplier, and the task has returned.
C18_Witness ==
    /\ Returned(DayOne, "generate_supplier_orders")
    /\ net_demand.exists /\ NoPositiveDemand
    /\ \E row \in DOMAIN net_demand.rows :
         \E p \in products : p.sku = row.sku /\ PrimaryLinks(p) # {}
    /\ supplier_orders[DayOne] = File(<< >>)
    /\ pc[DayOne] = "cleanup_temp_tables"

\* C19: when the run has ended, after all its tasks or at the failure of a
\* task after calculate_net_demand, there is no net_demand table and no
\* stored copy of its rows.
C19_NetDemandNotPersisted ==
    ( \/ pc[DayOne] = "done"
      \/ /\ pc[DayOne] = "failed"
         /\ task_result[DayOne].task
               \in {"generate_supplier_orders", "cleanup_temp_tables"} ) =>
        /\ ~net_demand.exists
        /\ ~net_demand_csv[DayOne].exists

---------------------------------------------------------------------------
(* Properties of a second run for the same date.                           *)

\* C16: with the inputs unchanged, a run for a date whose output file is
\* there already leaves the file as it is: what it writes over it is the
\* same lines.
C16_RerunSameOutput ==
    [][\A d \in Dates :
          supplier_orders[d].exists => supplier_orders'[d] = supplier_orders[d]
      ]_vars

\* The first run of DayOne ended with success, and the second has written
\* its output file, which holds a line.
C16_Witness ==
    /\ dag_runs[DayOne] = <<"success">>
    /\ Returned(DayOne, "generate_supplier_orders")
    /\ Lines # {}

---------------------------------------------------------------------------
(* Properties of two runs for different dates.                             *)

\* The net demand of sku k on date d, from the raw partitions of that date.
OwnNetDemand(d, k, safety_stock) ==
    LET x == Total({o \in raw_orders[d].lines : o.sku = k}, "quantity")
               + safety_stock
               - ( Total({r \in raw_stock[d].lines : r.sku = k},
                         "available_stock")
                   - Total({r \in raw_stock[d].lines : r.sku = k},
                           "reserved_stock") )
    IN  IF x > 0 THEN x ELSE 0

\* C17: however the tasks of two runs for different dates interleave, the
\* output file of each date holds the orders of that date's partitions:
\* every line's net_demand is the one computed from the date's own orders
\* and stock.
C17_EachDateItsOwnData ==
    \A d \in Dates :
        supplier_orders[d].exists =>
            \A i \in 1..Len(supplier_orders[d].lines) :
                \A r \in replenishment_rules : \A p \in products :
                    LET l == supplier_orders[d].lines[i]
                    IN  (p.sku = l.sku /\ r.product_id = p.product_id) =>
                            l.net_demand = OwnNetDemand(d, l.sku, r.safety_stock)

---------------------------------------------------------------------------
(* Properties of the scripts that fill the master data.                    *)

\* C20: after any number of executions of link_products_to_suppliers, every
\* product has at most one link with is_primary_supplier = true.
C20_AtMostOnePrimaryLink ==
    \A p \in products : Cardinality(PrimaryLinks(p)) <= 1

\* The rules of product p.
RulesOf(p) == {r \in replenishment_rules : r.product_id = p.product_id}

\* C21: an execution of generate_replenishment_rules leaves every product
\* that is active with exactly one rule, and leaves every rule that was
\* there as it was.
C21_OneRulePerActiveProduct ==
    [][generate_replenishment_rules =>
          /\ \A p \in products' :
               p.is_active =>
                   Cardinality({r \in replenishment_rules' :
                                   r.product_id = p.product_id}) = 1
          /\ replenishment_rules \subseteq replenishment_rules'
      ]_vars

\* Two active products carry one rule each, of different case sizes, so an
\* execution that found the rule of one could have drawn another for it.
C21_Witness ==
    /\ \A p \in products : p.is_active /\ Cardinality(RulesOf(p)) = 1
    /\ \E r1 \in replenishment_rules, r2 \in replenishment_rules :
         r1.case_size # r2.case_size

---------------------------------------------------------------------------
(* Properties of the aggregation of calculate_net_demand.                  *)

\* C22: every row of the net_demand table is determined by its product's
\* rule and the day's totals of its sku, the quantities summed over all
\* stores and the stock over all warehouses: two days with the same totals
\* per sku give the same rows, however the totals are spread.
C22_RowsDependOnTotalsOnly ==
    net_demand.exists =>
        \A row \in DOMAIN net_demand.rows :
            \E r \in replenishment_rules, p \in products :
                /\ p.sku = row.sku /\ r.product_id = p.product_id
                /\ LET x == DayOrders(row.sku) + r.safety_stock
                              - (DayAvailable(row.sku) - DayReserved(row.sku))
                   IN  row = [sku |-> p.sku,
                              aggregated_orders |-> DayOrders(row.sku),
                              available_stock |-> DayAvailable(row.sku),
                              reserved_stock |-> DayReserved(row.sku),
                              safety_stock |-> r.safety_stock,
                              net_demand |-> IF x > 0 THEN x ELSE 0,
                              case_size |-> r.case_size,
                              min_order_quantity |-> r.min_order_quantity]

\* A sku has order lines of two stores and stock records of two warehouses,
\* and its row carries the sums: 105 ordered, 260 available, 10 reserved.
C22_Witness ==
    /\ net_demand.exists
    /\ \E row \in DOMAIN net_demand.rows :
         /\ Cardinality({o.pos_store_id : o \in {o \in orders : o.sku = row.sku}})
              = 2
         /\ Cardinality({s.warehouse_code : s \in {s \in stock : s.sku = row.sku}})
              = 2
         /\ row.aggregated_orders = 105
         /\ row.available_stock = 260
         /\ row.reserved_stock = 10

---------------------------------------------------------------------------
(* Properties of the order of the tasks and of their failures.             *)

\* C23: the task that is up next in a run changes only when the task
\* returned, to the task downstream of it in the chain, or when the task
\* failed for good; and the net_demand table is dropped only by
\* calculate_net_demand, before it creates it, and by cleanup_temp_tables,
\* which is up only after generate_supplier_orders has returned.
C23_TasksInLinearOrder ==
    [][/\ \A d \in Dates :
            pc'[d] # pc[d] =>
                /\ task_result'[d].task = pc[d]
                /\ \/ /\ pc'[d] = Downstream(pc[d])
                      /\ task_result'[d].error = ""
                   \/ /\ pc'[d] = "failed"
                      /\ task_result'[d].error # ""
       /\ (net_demand.exists /\ ~net_demand'.exists) =>
            \E d \in Dates :
                pc[d] \in {"calculate_net_demand", "cleanup_temp_tables"}
      ]_vars

\* The run went through all its tasks: the last has returned, the output
\* file holds a line and the net_demand table is dropped.
C23_Witness ==
    /\ pc[DayOne] = "done"
    /\ Returned(DayOne, "cleanup_temp_tables")
    /\ Lines # {}
    /\ ~net_demand.exists

\* The tasks that are upstream of create_hive_tables, and the failed state.
BeforeTables == {"initialize_presto_schema", "check_data_availability",
                 "failed"}

\* C24: when the orders partition or the stock partition of the run's date
\* is missing, check_data_availability does not return and no task
\* downstream of it runs: there is no net_demand table, no export of it and
\* no output file of that date; when check_data_availability has returned,
\* both partitions are there.
C24_MissingPartitionStopsRun ==
    /\ (~raw_orders[DayOne].exists \/ ~raw_stock[DayOne].exists) =>
          /\ pc[DayOne] \in BeforeTables
          /\ task_result[DayOne].task # "check_data_availability"
                \/ task_result[DayOne].error # ""
          /\ orders = {} /\ stock = {}
          /\ ~net_demand.exists
          /\ ~net_demand_csv[DayOne].exists
          /\ ~supplier_orders[DayOne].exists
    /\ Returned(DayOne, "check_data_availability") =>
          raw_orders[DayOne].exists /\ raw_stock[DayOne].exists

\* The orders partition holds a line, the stock partition is missing, and
\* the run has failed at check_data_availability after its retry.
C24_Witness ==
    /\ raw_orders[DayOne].exists /\ raw_orders[DayOne].lines # {}
    /\ ~raw_stock[DayOne].exists
    /\ pc[DayOne] = "failed"
    /\ tries[DayOne] = Retries
    /\ task_result[DayOne] =
           Result("check_data_availability", "Stock data not found")

---------------------------------------------------------------------------
(* DatabaseConnection.get_connection (database/db_connection.py) and the   *)
(* with blocks entered on it.  A with block is a run of steps: connect,    *)
(* the body at the yield, commit, the except clause, the finally clause.   *)

\* At most this many with blocks, one after the other.
MaxUses == 2

\* The variables of the pipeline, which no script below writes.
pipeline == <<master, raw, orders, stock, net_demand, net_demand_csv,
              supplier_orders, findings, pc, tries, task_result, dag_runs>>

\* The static methods that enter `with DatabaseConnection.get_connection()`.
Callers ==
    {"execute_query", "execute_many", "execute_script", "test_connection"}

\* What the body of a with block ends with: nothing raised, an Exception
\* (a psycopg2.Error of the cursor) or a BaseException that is none
\* (KeyboardInterrupt, when the script is interrupted).
BodyOutcomes == {"", "body: Exception", "body: KeyboardInterrupt"}

\* `except Exception as e` catches e.
ExceptException(e) == e \notin {"", "body: KeyboardInterrupt"}

\* conn = None; try: conn = psycopg2.connect(**DB_CONFIG), which returns
\* the connection or raises.
get_connection(caller) ==
    /\ connection.pc \in {"none", "exit"}
    /\ connection.uses < MaxUses
    /\ \E connect_ok \in BOOLEAN :
         connection' =
             [pc |-> IF connect_ok THEN "yield" ELSE "except",
              caller |-> caller,
              conn |-> IF connect_ok THEN "open" ELSE "None",
              calls |-> << >>,
              e |-> IF connect_ok THEN "" ELSE "connect: Exception",
              raised |-> "",
              uses |-> connection.uses + 1]
    /\ UNCHANGED <<pipeline, upload>>

\* yield conn: the body of the caller's with block runs, and what it raises
\* is thrown into the generator at the yield.
yield_conn ==
    /\ connection.pc = "yield"
    /\ \E out \in BodyOutcomes :
         connection' =
             [connection EXCEPT
                 !.e = out,
                 !.pc = IF out = "" THEN "commit"
                        ELSE IF ExceptException(out) THEN "except"
                        ELSE "finally"]
    /\ UNCHANGED <<pipeline, upload>>

\* conn.commit(), which returns or raises.
commit ==
    /\ connection.pc = "commit"
    /\ \E commit_ok \in BOOLEAN :
         connection' =
             [connection EXCEPT
                 !.calls = Append(@, "commit"),
                 !.e = IF commit_ok THEN "" ELSE "commit: Exception",
                 !.pc = IF commit_ok THEN "finally" ELSE "except"]
    /\ UNCHANGED <<pipeline, upload>>

\* except Exception as e: if conn: conn.rollback(); raise e.  When rollback
\* raises, `raise e` is not reached and the exception of rollback is the one
\* under way.
rollback ==
    /\ connection.pc = "except"
    /\ IF connection.conn # "None"
       THEN \E rollback_ok \in BOOLEAN :
              connection' =
                  [connection EXCEPT
                      !.calls = Append(@, "rollback"),
                      !.e = IF rollback_ok THEN @ ELSE "rollback: Exception",
                      !.pc = "finally"]
       ELSE connection' = [connection EXCEPT !.pc = "finally"]
    /\ UNCHANGED <<pipeline, upload>>

\* finally: if conn: conn.close().  close of psycopg2 does not raise; the
\* exception under way, if any, then reaches the caller.
close ==
    /\ connection.pc = "finally"
    /\ connection' =
           [connection EXCEPT
               !.calls = IF connection.conn # "None"
                         THEN Append(@, "close") ELSE @,
               !.conn = IF @ = "open" THEN "closed" ELSE @,
               !.raised = connection.e,
               !.pc = "exit"]
    /\ UNCHANGED <<pipeline, upload>>

\* Nothing of the pipeline has run and the database is empty.
InitConn == InitSeed

NextConn ==
    \/ \E caller \in Callers : get_connection(caller)
    \/ yield_conn
    \/ commit
    \/ rollback
    \/ close

SpecConn == InitConn /\ [][NextConn]_vars

\* C26: when a with block of get_connection is over, a connection that was
\* opened has seen exactly one of commit (the body raised nothing) or
\* rollback (the body or the commit raised), then close, and the exception
\* of the body or of the commit has reached the caller; when connect
\* failed, nothing was called and its exception has reached the caller.
C26_CommitOrRollbackThenClose ==
    connection.pc = "exit" =>
        IF connection.conn = "None"
        THEN /\ connection.calls = << >>
             /\ connection.raised = "connect: Exception"
        ELSE \/ /\ connection.calls = <<"commit", "close">>
                /\ connection.raised = ""
             \/ /\ connection.calls = <<"rollback", "close">>
                /\ connection.raised \in BodyOutcomes \ {""}
             \/ /\ connection.calls = <<"commit", "rollback", "close">>
                /\ connection.raised = "commit: Exception"

---------------------------------------------------------------------------
(* upload_to_hdfs (scripts/upload_to_hdfs.py): the local files of a date,  *)
(* one per store and one per warehouse, are put into the date's raw        *)
(* partitions in HDFS.                                                     *)

\* <store_code>_<date>.json and <warehouse_code>_<date>.json, as
\* generate_daily_orders and generate_stock_snapshot write them.
LocalOrderFile(st) == {l \in OrderPool : l.pos_store_id = st}
LocalStockFile(w) == {r \in StockPool : r.warehouse_code = w}

\* A command upload_to_hdfs has run: hdfs dfs -mkdir -p, -put -f or -ls on
\* the orders or the stock path, file 0 when it names no file.
Cmd(command, dir, file, returncode) ==
    [command |-> command, dir |-> dir, file |-> file,
     returncode |-> returncode]

\* list(dir.glob("*.json")), taken in the order of the codes.
RECURSIVE Glob(_)
Glob(files) ==
    IF files = {} THEN << >>
    ELSE LET first == CHOOSE f \in files : \A g \in files : f <= g
         IN  <<first>> \o Glob(files \ {first})

\* run_command: subprocess.run with check=True raises CalledProcessError on
\* a return code other than 0, which is caught: True, or False.
run_command(cmd) == cmd.returncode = 0

\* As AndAssign, were the result assigned: success = run_command(...).
Assign(success, result) == result

\* success &= run_command(...)
AndAssign(success, result) == success /\ result

\* success after the commands were run one after the other.
RECURSIVE SuccessAfter(_, _)
SuccessAfter(success, commands) ==
    IF commands = << >> THEN success
    ELSE SuccessAfter(AndAssign(success, run_command(Head(commands))),
                      Tail(commands))

\* for file in files: run_command([... "-put", "-f", local, hdfs])
Uploads(dir, files, returncodes) ==
    [i \in 1..Len(files) |-> Cmd("put", dir, files[i], returncodes[files[i]])]

\* The files of dir the commands have put into HDFS.
Uploaded(commands, dir) ==
    {commands[i].file : i \in {j \in DOMAIN commands :
        /\ commands[j].command = "put"
        /\ commands[j].dir = dir
        /\ commands[j].returncode = 0}}

\* The partition directory after the commands: mkdir -p makes it, put -f
\* adds the lines of a file to it.
PartitionAfter(partition, commands, dir, lines) ==
    IF \E i \in DOMAIN commands :
          /\ commands[i].command = "mkdir"
          /\ commands[i].dir = dir
          /\ commands[i].returncode = 0
    THEN Partition(partition.lines \cup lines)
    ELSE partition

\* upload_to_hdfs(execution_date).  Without the docker executable the first
\* subprocess.run raises FileNotFoundError, which run_command does not
\* catch; the results of the two -ls commands are not read.
upload_to_hdfs(execution_date) ==
    /\ upload.returned = "not called"
    /\ \E mk \in [{"orders", "stock"} -> {0, 1}],
          po \in [upload.order_files -> {0, 1}],
          ps \in [upload.stock_files -> {0, 1}],
          ls \in [{"orders", "stock"} -> {0, 1}] :
         LET mkdirs == <<Cmd("mkdir", "orders", 0, mk["orders"]),
                         Cmd("mkdir", "stock", 0, mk["stock"])>>
             puts == Uploads("orders", Glob(upload.order_files), po) \o
                     Uploads("stock", Glob(upload.stock_files), ps)
             lists == <<Cmd("ls", "orders", 0, ls["orders"]),
                        Cmd("ls", "stock", 0, ls["stock"])>>
             created == SuccessAfter(TRUE, mkdirs)
             success == SuccessAfter(created, puts)
             found == upload.orders_dir /\ upload.stock_dir
             commands ==
                 IF ~found \/ ~upload.docker THEN << >>
                 ELSE IF ~created THEN mkdirs
                 ELSE IF ~success THEN mkdirs \o puts
                 ELSE mkdirs \o puts \o lists
             returned ==
                 IF ~found THEN "False"
                 ELSE IF ~upload.docker THEN "FileNotFoundError"
                 ELSE IF ~created \/ ~success THEN "False"
                 ELSE "True"
         IN  /\ upload' = [upload EXCEPT !.execution_date = execution_date,
                                         !.commands = commands,
                                         !.returned = returned]
             /\ raw_orders' =
                    [raw_orders EXCEPT ![execution_date] =
                        PartitionAfter(@, commands, "orders",
                            UNION {LocalOrderFile(st) :
                                      st \in Uploaded(commands, "orders")})]
             /\ raw_stock' =
                    [raw_stock EXCEPT ![execution_date] =
                        PartitionAfter(@, commands, "stock",
                            UNION {LocalStockFile(w) :
                                      w \in Uploaded(commands, "stock")})]
    /\ UNCHANGED <<master, orders, stock, net_demand, net_demand_csv,
                   supplier_orders, findings, pc, tries, task_result,
                   dag_runs, connection>>

\* The local directories of the date are there or not, with the files of
\* any stores and warehouses; docker is installed or not.  HDFS is empty.
InitUpload ==
    /\ products = {}
    /\ replenishment_rules = {}
    /\ supplier_products = {}
    /\ raw_orders = [d \in Dates |-> NoPartition]
    /\ raw_stock = [d \in Dates |-> NoPartition]
    /\ orders = {}
    /\ stock = {}
    /\ net_demand = NoTable
    /\ net_demand_csv = [d \in Dates |-> NoTable]
    /\ supplier_orders = [d \in Dates |-> NoFile]
    /\ exceptions = [d \in Dates |-> << >>]
    /\ dq_results = [d \in Dates |-> NoResults]
    /\ pc = [d \in Dates |-> "none"]
    /\ tries = [d \in Dates |-> 0]
    /\ task_result = [d \in Dates |-> NoResult]
    /\ dag_runs = [d \in Dates |-> << >>]
    /\ connection = NoConnection
    /\ \E orders_dir \in BOOLEAN, stock_dir \in BOOLEAN, docker \in BOOLEAN :
         \E order_files \in SUBSET Stores, stock_files \in SUBSET Warehouses :
            /\ ~orders_dir => order_files = {}
            /\ ~stock_dir => stock_files = {}
            /\ upload = [NoUpload EXCEPT !.orders_dir = orders_dir,
                                         !.stock_dir = stock_dir,
                                         !.order_files = order_files,
                                         !.stock_files = stock_files,
                                         !.docker = docker]

NextUpload == \E execution_date \in Dates : upload_to_hdfs(execution_date)

SpecUpload == InitUpload /\ [][NextUpload]_vars

\* The commands upload_to_hdfs ran, as a set.
Ran == {upload.commands[i] : i \in DOMAIN upload.commands}

\* C27: upload_to_hdfs returns True only if both local directories exist,
\* both mkdir succeeded and the upload of every order file and every stock
\* file succeeded; when a mkdir failed no upload was attempted; when an
\* upload failed every file was still attempted and False is returned.
C27_TrueOnlyIfAllUploaded ==
    upload.returned # "not called" =>
        /\ upload.returned = "True" =>
              /\ upload.orders_dir /\ upload.stock_dir
              /\ Cmd("mkdir", "orders", 0, 0) \in Ran
              /\ Cmd("mkdir", "stock", 0, 0) \in Ran
              /\ \A st \in upload.order_files :
                    Cmd("put", "orders", st, 0) \in Ran
              /\ \A w \in upload.stock_files :
                    Cmd("put", "stock", w, 0) \in Ran
        /\ (\E c \in Ran : c.command = "mkdir" /\ c.returncode # 0) =>
              \A c \in Ran : c.command # "put"
        /\ (\E c \in Ran : c.command = "put" /\ c.returncode # 0) =>
              /\ \A st \in upload.order_files :
                    \E c \in Ran : c = Cmd("put", "orders", st, c.returncode)
              /\ \A w \in upload.stock_files :
                    \E c \in Ran : c = Cmd("put", "stock", w, c.returncode)
              /\ upload.returned = "False"

\* The upload of the first of two order files failed, the second and the
\* stock file were still put, and False was returned.
C27_Witness ==
    /\ upload.returned = "False"
    /\ upload.order_files = Stores
    /\ upload.stock_files # {}
    /\ Cmd("put", "orders", 1, 1) \in Ran
    /\ Cmd("put", "orders", 2, 0) \in Ran
    /\ \E c \in Ran : c.command = "put" /\ c.dir = "stock"


===========================================================================
